---- MODULE Spec2Model ----
(***************************************************************************)
(* Model of the RTI application tracker (src/india/rti/rti_tracker.py):    *)
(* one table of RTIRecord rows, the operations of RTITracker on it, and    *)
(* the wall clock the operations read; and of the computed properties of   *)
(* an RTIApplication draft (src/india/rti/rti_generator.py).               *)
(*                                                                         *)
(* Time is counted in whole days.  A nullable column or an optional        *)
(* argument is None (the empty tuple) or Some(v) (the one-element tuple).  *)
(* The notes column, a newline-separated text in the source, is the        *)
(* sequence of its lines.                                                  *)
(***************************************************************************)
EXTENDS Integers, Sequences, FiniteSets, TLC

VARIABLES
    rows,       \* the rti_records table, in insertion order
    before,     \* the table as it was when the last operation was invoked
    now,        \* the wall clock, in days
    call,       \* the last operation invoked on the tracker, with its arguments
    result,     \* what that operation returned
    repeated,   \* Some(days since the previous operation) when the last operation
                \* repeated it with the same arguments, None otherwise
    filedVia,   \* history: <<id, operation>> for every successful mutator call
    nops,       \* number of operations invoked so far
    draft,      \* the RTIApplication draft at hand, None when there is none
    read        \* the last property read from the draft, with its value

vars == <<rows, before, now, call, result, repeated, filedVia, nops, draft, read>>

----------------------------------------------------------------------------
(* Bounds of the model. *)

MaxRecords == 2
MaxOps == 3
MaxTicks == 1
DayStep == 70
MaxDateSteps == 1

----------------------------------------------------------------------------
(* Optional values. *)

None == <<>>
Some(v) == <<v>>
Val(o) == o[1]

\* Python truthiness of an Optional[str]: None and "" are false.
TruthyStr(o) == o # None /\ Val(o) # ""

\* Python truthiness of an Optional[list]: None and [] are false.
TruthyList(o) == o # None /\ Val(o) # <<>>

\* `x or default` for an optional datetime, and an omitted argument that has a
\* default: a datetime is always true.
OrElse(o, d) == IF o = None THEN d ELSE Val(o)

----------------------------------------------------------------------------
(* RTIStatus, rti_tracker.py:39-53. *)

RTIStatus ==
    { "drafted", "filed", "acknowledged", "transferred", "response_received",
      "partial_response", "denied", "no_response", "first_appeal_filed",
      "first_appeal_decided", "second_appeal_filed", "second_appeal_decided",
      "complaint_filed", "closed" }

\* timedelta(days=30), timedelta(days=90) of the tracker
ResponseDays == 30
FirstAppealDays == 30
SecondAppealDays == 90
DefaultCommission == "Central Information Commission"

----------------------------------------------------------------------------
(* Conversions used by the store. *)

\* json.dumps of a list of strings: every item becomes a quoted JSON string.
json_dumps(list) == [i \in 1..Len(list) |-> <<"str", list[i]>>]

\* json.loads of such an array.
json_loads(text) == [i \in 1..Len(text) |-> text[i][2]]

\* datetime.isoformat(): an ISO-8601 string, one per datetime.
isoformat(d) == <<"iso", d>>

\* datetime.utcnow() on a host whose local time is UTC.
utcnow(t) == t

\* One line "[timestamp] <prefix><text>" of the notes log.
NoteLine(t, prefix, text) == [timestamp |-> t, prefix |-> prefix, text |-> text]

\* Variant: the new line replaces the log.
AppendNote_Overwrite(notes, t, prefix, text) == Some(<<NoteLine(t, prefix, text)>>)

\* f"{existing}\n[{timestamp}] {text}".strip() with existing = record.notes or "":
\* the leading newline of the first entry is stripped, later entries follow on
\* a line of their own.
AppendNote(notes, t, prefix, text) ==
    LET existing == IF notes = None THEN <<>> ELSE Val(notes)
    IN  Some(Append(existing, NoteLine(t, prefix, text)))

----------------------------------------------------------------------------
(* Table access. *)

Ids(rs) == { rs[i].id : i \in 1..Len(rs) }

\* session.get(RTIRecord, record_id): the position of the row, 0 when absent.
session_get(rs, record_id) ==
    IF \E i \in 1..Len(rs) : rs[i].id = record_id
    THEN CHOOSE i \in 1..Len(rs) : rs[i].id = record_id
    ELSE 0

\* Variant: the key is the number of rows counted before the insert of the
\* second row onwards, so the largest key in use is handed out again.
NextId_Reused(rs) ==
    IF Len(rs) = 0 THEN 1
    ELSE CHOOSE m \in Ids(rs) : \A k \in Ids(rs) : k <= m

\* The INTEGER PRIMARY KEY of a new row: one more than the largest in use.
NextId(rs) ==
    IF Len(rs) = 0 THEN 1
    ELSE (CHOOSE m \in Ids(rs) : \A k \in Ids(rs) : k <= m) + 1

\* UNIQUE constraint on reference_number (NULLs never collide).
\* Variant: reference numbers are not compared.
RefTaken_Never(rs, ref) == FALSE

RefTaken(rs, ref) ==
    ref # None /\ \E i \in 1..Len(rs) : rs[i].reference_number = ref

----------------------------------------------------------------------------
(* RTITracker.add_rti, rti_tracker.py:134-175. *)

\* Variant: the record is created with the draft-time appeal deadlines.
NewRecord_WithEstimates(id, a, filing_date, status, t) ==
    [ id                      |-> id,
      reference_number        |-> a.reference_number,
      agency_code             |-> a.agency_code,
      agency_name             |-> a.agency_name,
      applicant_name          |-> a.applicant_name,
      subject                 |-> a.subject,
      questions_json          |-> json_dumps(a.questions),
      full_text               |-> a.full_text,
      state                   |-> a.state,
      district                |-> a.district,
      filing_date             |-> filing_date,
      fee_amount              |-> a.fee_amount,
      status                  |-> status,
      response_date           |-> None,
      response_deadline       |-> filing_date + ResponseDays,
      first_appeal_deadline   |-> Some(filing_date + ResponseDays + FirstAppealDays),
      second_appeal_deadline  |->
          Some(filing_date + ResponseDays + FirstAppealDays + SecondAppealDays),
      first_appeal_date       |-> None,
      first_appeal_authority  |-> None,
      second_appeal_date      |-> None,
      second_appeal_authority |-> None,
      notes                   |-> None,
      response_summary        |-> None,
      documents_received      |-> None,
      created_at              |-> utcnow(t),
      updated_at              |-> utcnow(t) ]

\* RTIRecord(...): the columns add_rti passes, every other column at its
\* default (NULL; created_at and updated_at default to utcnow).
NewRecord(id, a, filing_date, status, t) ==
    [ id                      |-> id,
      reference_number        |-> a.reference_number,
      agency_code             |-> a.agency_code,
      agency_name             |-> a.agency_name,
      applicant_name          |-> a.applicant_name,
      subject                 |-> a.subject,
      questions_json          |-> json_dumps(a.questions),
      full_text               |-> a.full_text,
      state                   |-> a.state,
      district                |-> a.district,
      filing_date             |-> filing_date,
      fee_amount              |-> a.fee_amount,
      status                  |-> status,
      response_date           |-> None,
      response_deadline       |-> filing_date + ResponseDays,
      first_appeal_deadline   |-> None,
      second_appeal_deadline  |-> None,
      first_appeal_date       |-> None,
      first_appeal_authority  |-> None,
      second_appeal_date      |-> None,
      second_appeal_authority |-> None,
      notes                   |-> None,
      response_summary        |-> None,
      documents_received      |-> None,
      created_at              |-> utcnow(t),
      updated_at              |-> utcnow(t) ]

\* session.add(record); session.commit(): the insert fails on a duplicate
\* reference_number and the exception leaves add_rti.
Insert(rs, record) ==
    IF RefTaken(rs, record.reference_number)
    THEN [rows |-> rs, result |-> [kind |-> "raise", val |-> "IntegrityError"]]
    ELSE [rows |-> Append(rs, record), result |-> [kind |-> "id", val |-> record.id]]

\* Variant: the initial status is decided from the caller's filing_date, before
\* the default is applied.
add_rti_StatusFromArgument(rs, a, t) ==
    LET filing_date == OrElse(a.filing_date, t)
        status == IF a.filing_date # None THEN "filed" ELSE "drafted"
    IN  Insert(rs, NewRecord(NextId(rs), a, filing_date, status, t))

add_rti(rs, a, t) ==
    LET \* if filing_date is None: filing_date = datetime.now()
        filing_date == OrElse(a.filing_date, t)
        \* RTIStatus.FILED if filing_date else RTIStatus.DRAFTED, read after the
        \* default was applied: filing_date is a datetime here, which is true
        status == IF Some(filing_date) # None THEN "filed" ELSE "drafted"
    IN  Insert(rs, NewRecord(NextId(rs), a, filing_date, status, t))

----------------------------------------------------------------------------
(* The mutators, rti_tracker.py:177-270.  Each looks the record up, returns *)
(* False when there is none, and otherwise assigns the record's columns,    *)
(* commits and returns True.                                                *)

\* Variant: a missing record is not checked for, and assigning to it raises.
NotFound_Unchecked(rs) ==
    [rows |-> rs, result |-> [kind |-> "raise", val |-> "AttributeError"]]

NotFound(rs) == [rows |-> rs, result |-> [kind |-> "bool", val |-> FALSE]]

\* Variant: committing a closed record removes its row.
Committed_Deleting(rs, i, record) ==
    IF record.status = "closed"
    THEN [rows |-> SelectSeq(rs, LAMBDA r : r.id # record.id),
          result |-> [kind |-> "bool", val |-> TRUE]]
    ELSE [rows |-> [rs EXCEPT ![i] = record], result |-> [kind |-> "bool", val |-> TRUE]]

\* Variant: the status of the committed record is written to every row.
Committed_StatusToAll(rs, i, record) ==
    [rows |-> [k \in 1..Len(rs) |->
                  IF k = i THEN record ELSE [rs[k] EXCEPT !.status = record.status]],
     result |-> [kind |-> "bool", val |-> TRUE]]

Committed(rs, i, record) ==
    [rows |-> [rs EXCEPT ![i] = record], result |-> [kind |-> "bool", val |-> TRUE]]

\* Variant: a response_date already recorded is kept.
StatusUpdated_KeepsResponseDate(record, a, t) ==
    LET r1 == [record EXCEPT !.status = a.status, !.updated_at = utcnow(t)]
        r2 == IF TruthyStr(a.notes)
              THEN [r1 EXCEPT !.notes = AppendNote(r1.notes, t, "", Val(a.notes))]
              ELSE r1
        r3 == IF TruthyStr(a.response_summary)
              THEN [r2 EXCEPT !.response_summary = a.response_summary]
              ELSE r2
    IN  IF a.status = "response_received" /\ record.response_date = None
        THEN [r3 EXCEPT !.response_date = Some(t)]
        ELSE r3

\* The assignments of update_status, lines 189-198.
StatusUpdated(record, a, t) ==
    LET r1 == [record EXCEPT !.status = a.status, !.updated_at = utcnow(t)]
        r2 == IF TruthyStr(a.notes)
              THEN [r1 EXCEPT !.notes = AppendNote(r1.notes, t, "", Val(a.notes))]
              ELSE r1
        r3 == IF TruthyStr(a.response_summary)
              THEN [r2 EXCEPT !.response_summary = a.response_summary]
              ELSE r2
    IN  IF a.status = "response_received"
        THEN [r3 EXCEPT !.response_date = Some(t)]
        ELSE r3

\* Variant: a closed record refuses a new status.
update_status_ClosedIsTerminal(rs, a, t) ==
    LET i == session_get(rs, a.record_id) IN
    IF i = 0 \/ rs[i].status = "closed"
    THEN NotFound(rs)
    ELSE Committed(rs, i, StatusUpdated(rs[i], a, t))

update_status(rs, a, t) ==
    LET i == session_get(rs, a.record_id) IN
    IF i = 0 THEN NotFound(rs) ELSE Committed(rs, i, StatusUpdated(rs[i], a, t))

\* Variant: the documents of a call are added to those already recorded.
ResponseMarked_Accumulating(record, a, t) ==
    LET r1 == [record EXCEPT !.status = "response_received",
                             !.response_date = Some(OrElse(a.response_date, t)),
                             !.response_summary = Some(a.response_summary)]
        earlier == IF record.documents_received = None THEN <<>>
                   ELSE Val(record.documents_received)
        r2 == IF TruthyList(a.documents)
              THEN [r1 EXCEPT !.documents_received =
                        Some(earlier \o json_dumps(Val(a.documents)))]
              ELSE r1
    IN  [r2 EXCEPT !.updated_at = utcnow(t)]

\* The assignments of mark_response_received, lines 214-219.
ResponseMarked(record, a, t) ==
    LET r1 == [record EXCEPT !.status = "response_received",
                             !.response_date = Some(OrElse(a.response_date, t)),
                             !.response_summary = Some(a.response_summary)]
        r2 == IF TruthyList(a.documents)
              THEN [r1 EXCEPT !.documents_received = Some(json_dumps(Val(a.documents)))]
              ELSE r1
    IN  [r2 EXCEPT !.updated_at = utcnow(t)]

mark_response_received(rs, a, t) ==
    LET i == session_get(rs, a.record_id) IN
    IF i = 0 THEN NotFound(rs) ELSE Committed(rs, i, ResponseMarked(rs[i], a, t))

\* Variant: filing the first appeal restarts the response period.
FirstAppealFiled_MovesResponseDeadline(record, a, t) ==
    LET first_appeal_date == OrElse(a.appeal_date, t)
        r1 == [record EXCEPT !.status = "first_appeal_filed",
                             !.first_appeal_date = Some(first_appeal_date),
                             !.first_appeal_authority = Some(a.appeal_authority),
                             !.response_deadline = first_appeal_date + ResponseDays,
                             !.first_appeal_deadline =
                                 Some(first_appeal_date + FirstAppealDays)]
        r2 == IF TruthyStr(a.notes)
              THEN [r1 EXCEPT !.notes =
                        AppendNote(r1.notes, t, "First appeal: ", Val(a.notes))]
              ELSE r1
    IN  [r2 EXCEPT !.updated_at = utcnow(t)]

\* Variant: the deadline is the draft-time estimate, counted from filing_date.
FirstAppealFiled_FromFiling(record, a, t) ==
    LET first_appeal_date == OrElse(a.appeal_date, t)
        r1 == [record EXCEPT !.status = "first_appeal_filed",
                             !.first_appeal_date = Some(first_appeal_date),
                             !.first_appeal_authority = Some(a.appeal_authority),
                             !.first_appeal_deadline =
                                 Some(record.filing_date + ResponseDays + FirstAppealDays)]
        r2 == IF TruthyStr(a.notes)
              THEN [r1 EXCEPT !.notes =
                        AppendNote(r1.notes, t, "First appeal: ", Val(a.notes))]
              ELSE r1
    IN  [r2 EXCEPT !.updated_at = utcnow(t)]

\* The assignments of file_first_appeal, lines 235-244.
FirstAppealFiled(record, a, t) ==
    LET first_appeal_date == OrElse(a.appeal_date, t)
        r1 == [record EXCEPT !.status = "first_appeal_filed",
                             !.first_appeal_date = Some(first_appeal_date),
                             !.first_appeal_authority = Some(a.appeal_authority),
                             !.first_appeal_deadline =
                                 Some(first_appeal_date + FirstAppealDays)]
        r2 == IF TruthyStr(a.notes)
              THEN [r1 EXCEPT !.notes =
                        AppendNote(r1.notes, t, "First appeal: ", Val(a.notes))]
              ELSE r1
    IN  [r2 EXCEPT !.updated_at = utcnow(t)]

file_first_appeal(rs, a, t) ==
    LET i == session_get(rs, a.record_id) IN
    IF i = 0 THEN NotFound(rs) ELSE Committed(rs, i, FirstAppealFiled(rs[i], a, t))

\* Variant: the 90 days are counted from the first appeal when there was one.
SecondAppealFiled_FromFirstAppeal(record, a, t) ==
    LET second_appeal_date == OrElse(a.appeal_date, t)
        r1 == [record EXCEPT !.status = "second_appeal_filed",
                             !.second_appeal_date = Some(second_appeal_date),
                             !.second_appeal_authority =
                                 Some(OrElse(a.commission, DefaultCommission)),
                             !.second_appeal_deadline =
                                 Some(OrElse(record.first_appeal_date, second_appeal_date)
                                      + SecondAppealDays)]
        r2 == IF TruthyStr(a.notes)
              THEN [r1 EXCEPT !.notes =
                        AppendNote(r1.notes, t, "Second appeal: ", Val(a.notes))]
              ELSE r1
    IN  [r2 EXCEPT !.updated_at = utcnow(t)]

\* The assignments of file_second_appeal, lines 260-268.  An omitted
\* commission is the default of the signature.
SecondAppealFiled(record, a, t) ==
    LET second_appeal_date == OrElse(a.appeal_date, t)
        r1 == [record EXCEPT !.status = "second_appeal_filed",
                             !.second_appeal_date = Some(second_appeal_date),
                             !.second_appeal_authority =
                                 Some(OrElse(a.commission, DefaultCommission)),
                             !.second_appeal_deadline =
                                 Some(second_appeal_date + SecondAppealDays)]
        r2 == IF TruthyStr(a.notes)
              THEN [r1 EXCEPT !.notes =
                        AppendNote(r1.notes, t, "Second appeal: ", Val(a.notes))]
              ELSE r1
    IN  [r2 EXCEPT !.updated_at = utcnow(t)]

file_second_appeal(rs, a, t) ==
    LET i == session_get(rs, a.record_id) IN
    IF i = 0 THEN NotFound(rs) ELSE Committed(rs, i, SecondAppealFiled(rs[i], a, t))

----------------------------------------------------------------------------
(* The draft-time deadlines of an application, rti_generator.py:156-169. *)

response_deadline(filing_date) == filing_date + 30
first_appeal_deadline(filing_date) == response_deadline(filing_date) + 30

\* Variant: the second appeal is counted from the response deadline.
second_appeal_deadline_FromResponse(filing_date) ==
    response_deadline(filing_date) + 90

second_appeal_deadline(filing_date) == first_appeal_deadline(filing_date) + 90

----------------------------------------------------------------------------
(* Calendar dates as day numbers; day 1 is the first of January of         *)
(* BaseYear.  timedelta(days=n) adds n to a day number.                    *)

BaseYear == 2024

is_leap(y) == (y % 4 = 0 /\ y % 100 # 0) \/ y % 400 = 0

days_in_month(y, m) ==
    IF m = 2 THEN (IF is_leap(y) THEN 29 ELSE 28)
    ELSE IF m \in {4, 6, 9, 11} THEN 30 ELSE 31

RECURSIVE days_before_month(_, _)
days_before_month(y, m) ==
    IF m = 1 THEN 0 ELSE days_before_month(y, m - 1) + days_in_month(y, m - 1)

RECURSIVE days_before_year(_)
days_before_year(y) ==
    IF y = BaseYear THEN 0
    ELSE days_before_year(y - 1) + (IF is_leap(y - 1) THEN 366 ELSE 365)

date(y, m, d) == days_before_year(y) + days_before_month(y, m) + d

----------------------------------------------------------------------------
(* The fee of an application, rti_generator.py:32-55, 58-119 and 147-154.  *)
(* A text the code transforms is the sequence of its characters.           *)

FEES ==
    [ central |-> 10, andhra_pradesh |-> 10, bihar |-> 10, chhattisgarh |-> 10,
      delhi |-> 10, goa |-> 10, gujarat |-> 20, haryana |-> 10,
      himachal_pradesh |-> 10, jharkhand |-> 10, karnataka |-> 10, kerala |-> 10,
      madhya_pradesh |-> 10, maharashtra |-> 10, odisha |-> 10, punjab |-> 10,
      rajasthan |-> 10, tamil_nadu |-> 10, telangana |-> 10, uttar_pradesh |-> 10,
      uttarakhand |-> 10, west_bengal |-> 10 ]

\* The entries without parent_ministry, which nothing reads.  The Devanagari
\* texts of the source are written in Latin letters here and below.
AgencyEntry(name, name_hi, pio_designation, address, appellate_authority) ==
    [ name                |-> name,
      name_hi             |-> name_hi,
      pio_designation     |-> pio_designation,
      address             |-> address,
      fee_category        |-> "central",
      appellate_authority |-> appellate_authority,
      second_appeal       |-> "Central Information Commission, New Delhi" ]

AGENCY_DIRECTORY ==
    [ awbi  |-> AgencyEntry("Animal Welfare Board of India",
                    "Bharatiya Pashu Kalyan Board",
                    "Public Information Officer",
                    "13/1, Third Seaward Road, Valmiki Nagar, Thiruvanmiyur, Chennai - 600041",
                    "First Appellate Authority, AWBI"),
      fssai |-> AgencyEntry("Food Safety and Standards Authority of India",
                    "Bharatiya Khadya Suraksha aur Manak Pradhikaran",
                    "Central Public Information Officer",
                    "FDA Bhawan, Kotla Road, New Delhi - 110002",
                    "First Appellate Authority, FSSAI"),
      cpcb  |-> AgencyEntry("Central Pollution Control Board",
                    "Kendriya Pradushan Niyantran Board",
                    "Central Public Information Officer",
                    "Parivesh Bhawan, East Arjun Nagar, Delhi - 110032",
                    "First Appellate Authority, CPCB"),
      dahd  |-> AgencyEntry("Department of Animal Husbandry and Dairying",
                    "Pashupalan aur Dairy Vibhag",
                    "Central Public Information Officer",
                    "Krishi Bhawan, Dr. Rajendra Prasad Road, New Delhi - 110001",
                    "First Appellate Authority, DAHD"),
      nlm   |-> AgencyEntry("National Livestock Mission",
                    "Rashtriya Pashudhan Mission",
                    "Central Public Information Officer",
                    "Department of Animal Husbandry and Dairying, Krishi Bhawan, New Delhi - 110001",
                    "First Appellate Authority, DAHD"),
      rgm   |-> AgencyEntry("Rashtriya Gokul Mission",
                    "Rashtriya Gokul Mission",
                    "Central Public Information Officer",
                    "Department of Animal Husbandry and Dairying, Krishi Bhawan, New Delhi - 110001",
                    "First Appellate Authority, DAHD") ]

EmptyDict == <<>>

\* dict.get(key, default)
dict_get(dict, key, default) ==
    IF key \in DOMAIN dict THEN dict[key] ELSE default

UpperCase ==
    <<"A", "B", "C", "D", "E", "F", "G", "H", "I", "J", "K", "L", "M",
      "N", "O", "P", "Q", "R", "S", "T", "U", "V", "W", "X", "Y", "Z">>
LowerCase ==
    <<"a", "b", "c", "d", "e", "f", "g", "h", "i", "j", "k", "l", "m",
      "n", "o", "p", "q", "r", "s", "t", "u", "v", "w", "x", "y", "z">>

\* str.lower()
lower(text) ==
    [ i \in 1..Len(text) |->
        IF \E k \in 1..26 : UpperCase[k] = text[i]
        THEN LowerCase[CHOOSE k \in 1..26 : UpperCase[k] = text[i]]
        ELSE text[i] ]

\* str.replace(old, new) for one-character old and new
replace(text, old, new) ==
    [ i \in 1..Len(text) |-> IF text[i] = old THEN new ELSE text[i] ]

\* The string a sequence of characters spells.
RECURSIVE Spell(_)
Spell(text) ==
    IF text = <<>> THEN "" ELSE text[1] \o Spell(Tail(text))

\* `if self.state`: neither None nor the empty text.
TruthyText(o) == o # None /\ Val(o) # <<>>

\* self.state.lower().replace(" ", "_")
FeeKey(state) == Spell(replace(lower(state), " ", "_"))

\* Variant: the region is looked up before the exemption.
fee_amount_RegionBeforeExemption(a) ==
    IF TruthyText(a.state) /\ FeeKey(Val(a.state)) \in DOMAIN FEES
    THEN FEES[FeeKey(Val(a.state))]
    ELSE IF a.is_bpl
    THEN 0
    ELSE LET agency == dict_get(AGENCY_DIRECTORY, a.agency_code, EmptyDict)
         IN  dict_get(FEES, dict_get(agency, "fee_category", "central"), 10)

\* Variant: the region is looked up only for an agency outside the directory.
fee_amount_CategoryFirst(a) ==
    IF a.is_bpl
    THEN 0
    ELSE IF a.agency_code \in DOMAIN AGENCY_DIRECTORY
    THEN dict_get(FEES, AGENCY_DIRECTORY[a.agency_code].fee_category, 10)
    ELSE IF TruthyText(a.state) /\ FeeKey(Val(a.state)) \in DOMAIN FEES
    THEN FEES[FeeKey(Val(a.state))]
    ELSE dict_get(FEES, "central", 10)

fee_amount(a) ==
    IF a.is_bpl
    THEN 0
    ELSE IF TruthyText(a.state) /\ FeeKey(Val(a.state)) \in DOMAIN FEES
    THEN FEES[FeeKey(Val(a.state))]
    ELSE LET agency == dict_get(AGENCY_DIRECTORY, a.agency_code, EmptyDict)
         IN  dict_get(FEES, dict_get(agency, "fee_category", "central"), 10)

\* A text with line breaks is the sequence of its lines; the empty text has none.
EmptyText == <<>>

\* RTIApplication(...) with __post_init__, lines 122-145, without district
\* and custom_pio_name, which nothing reads.
RTIApplication(a, t) ==
    [ agency_code            |-> a.agency_code,
      questions              |-> a.questions,
      applicant_name         |-> a.applicant_name,
      applicant_address      |-> a.applicant_address,
      applicant_phone        |-> a.applicant_phone,
      applicant_email        |-> a.applicant_email,
      is_bpl                 |-> a.is_bpl,
      bpl_certificate_number |-> a.bpl_certificate_number,
      language               |-> a.language,
      state                  |-> a.state,
      subject                |-> a.subject,
      filing_date            |-> IF a.filing_date = None THEN t ELSE Val(a.filing_date),
      custom_pio_address     |-> a.custom_pio_address,
      generated_text         |-> EmptyText ]

----------------------------------------------------------------------------
(* Formatting, rti_generator.py:196-199 and 396-412. *)

DecimalDigits == <<"0", "1", "2", "3", "4", "5", "6", "7", "8", "9">>

\* str(n) for n >= 0
RECURSIVE str(_)
str(n) ==
    IF n < 10 THEN DecimalDigits[n + 1]
    ELSE str(n \div 10) \o DecimalDigits[(n % 10) + 1]

\* %d and %m: two digits
TwoDigits(n) == IF n < 10 THEN "0" \o str(n) ELSE str(n)

\* The year of a day number and the day's number in that year.
RECURSIVE YearOf(_, _)
YearOf(day, y) ==
    LET length == IF is_leap(y) THEN 366 ELSE 365
    IN  IF day <= length THEN [year |-> y, day |-> day]
        ELSE YearOf(day - length, y + 1)

RECURSIVE MonthOf(_, _, _)
MonthOf(y, day, m) ==
    IF day <= days_in_month(y, m) THEN [month |-> m, day |-> day]
    ELSE MonthOf(y, day - days_in_month(y, m), m + 1)

\* dt.year, dt.month, dt.day
Calendar(dt) ==
    LET yd == YearOf(dt, BaseYear)
        md == MonthOf(yd.year, yd.day, 1)
    IN  [year |-> yd.year, month |-> md.month, day |-> md.day]

\* strftime("%d/%m/%Y")
strftime(dt) ==
    LET c == Calendar(dt)
    IN  TwoDigits(c.day) \o "/" \o TwoDigits(c.month) \o "/" \o str(c.year)

months_hi ==
    <<"Janvari", "Farvari", "March", "Aprail", "Mai", "Joon",
      "Julai", "Agast", "Sitambar", "Aktubar", "Navambar", "Disambar">>

_format_date_hindi(dt) ==
    LET c == Calendar(dt)
    IN  str(c.day) \o " " \o months_hi[c.month] \o " " \o str(c.year)

_number_to_words(n) ==
    LET words == [ k \in {0, 2, 5, 10, 20, 50, 100} |->
                     CASE k = 0 -> "Zero" [] k = 2 -> "Two" [] k = 5 -> "Five"
                       [] k = 10 -> "Ten" [] k = 20 -> "Twenty" [] k = 50 -> "Fifty"
                       [] k = 100 -> "One Hundred" ]
    IN  dict_get(words, n, str(n))

\* `text or default` for an optional text
OrDefault(o, default) == IF TruthyStr(o) THEN Val(o) ELSE default

\* `text or default` for a text
StrOr(text, default) == IF text = "" THEN default ELSE text

\* s * n
RECURSIVE Repeat(_, _)
Repeat(text, n) == IF n = 0 THEN "" ELSE text \o Repeat(text, n - 1)

----------------------------------------------------------------------------
(* RTIGenerator's renderings, rti_generator.py:188-210 and 230-383. *)

\* for i, question in enumerate(app.questions, 1): the numbered question and
\* an empty line
QuestionLines(questions) ==
    [ k \in 1..(2 * Len(questions)) |->
        IF k % 2 = 1
        THEN str((k + 1) \div 2) \o ". " \o questions[(k + 1) \div 2]
        ELSE "" ]

ContactLines(a, phone, email) ==
    (IF TruthyStr(a.applicant_phone) THEN <<phone \o Val(a.applicant_phone)>> ELSE <<>>)
    \o (IF TruthyStr(a.applicant_email) THEN <<email \o Val(a.applicant_email)>> ELSE <<>>)

_generate_english(context) ==
    LET a == context.app
        agency == context.agency
        pio_address ==
            IF TruthyStr(a.custom_pio_address) THEN Val(a.custom_pio_address)
            ELSE dict_get(agency, "address", "[ADDRESS]")
        pio_designation ==
            dict_get(agency, "pio_designation", "Public Information Officer")
        fee_text ==
            IF a.is_bpl
            THEN "I belong to Below Poverty Line (BPL) category and am exempt from "
                 \o "payment of fee under Section 7(5) of the RTI Act, 2005. "
                 \o "My BPL Certificate Number is: "
                 \o OrDefault(a.bpl_certificate_number, "[BPL NUMBER]") \o "."
            ELSE "I am enclosing an Indian Postal Order / Demand Draft / Court Fee Stamp "
                 \o "of Rs. " \o str(context.fee) \o "/- (Rupees "
                 \o _number_to_words(context.fee) \o " only) "
                 \o "as the prescribed fee under the RTI Act, 2005."
    IN  << "APPLICATION UNDER SECTION 6(1) OF THE RIGHT TO INFORMATION ACT, 2005",
           "",
           "Date: " \o context.date,
           "",
           "To,",
           "The " \o pio_designation \o ",",
           dict_get(agency, "name", "[AGENCY NAME]") \o ",",
           pio_address,
           "",
           "Subject: " \o StrOr(a.subject, "Request for Information under RTI Act, 2005"),
           "",
           "Respected Sir/Madam,",
           "",
           "I, the undersigned, am a citizen of India and wish to seek information",
           "under Section 6(1) of the Right to Information Act, 2005. The details",
           "of the information sought are as follows:",
           "" >>
        \o QuestionLines(a.questions)
        \o << fee_text,
              "",
              "I request that the above information be provided within 30 days as",
              "stipulated under Section 7(1) of the RTI Act, 2005.",
              "",
              "If the information sought or any part thereof concerns the life or",
              "liberty of a person, it shall be provided within 48 hours of receipt",
              "of this request as per Section 7(1) of the Act.",
              "",
              "If this application is transferred to another public authority under",
              "Section 6(3), I request to be informed of the same.",
              "",
              "Yours faithfully,",
              "",
              "Name: " \o a.applicant_name,
              "Address: " \o a.applicant_address >>
        \o ContactLines(a, "Phone: ", "Email: ")
        \o << "",
              "---",
              "NOTE: Response deadline under Section 7(1): " \o context.response_deadline,
              "First Appeal deadline under Section 19(1): " \o context.first_appeal_deadline,
              "Appellate Authority: "
                  \o dict_get(agency, "appellate_authority", "First Appellate Authority"),
              "Second Appeal: "
                  \o dict_get(agency, "second_appeal", "Central/State Information Commission") >>

_generate_hindi(context) ==
    LET a == context.app
        agency == context.agency
        pio_address ==
            IF TruthyStr(a.custom_pio_address) THEN Val(a.custom_pio_address)
            ELSE dict_get(agency, "address", "[pata]")
        agency_name_hi ==
            dict_get(agency, "name_hi", dict_get(agency, "name", "[vibhag ka naam]"))
    IN  << "Soochna ka Adhikar Adhiniyam, 2005 ki dhara 6(1) ke tahat aavedan",
           "",
           "Dinank: " \o context.date_hi,
           "",
           "Seva mein,",
           "Jan Soochna Adhikari,",
           agency_name_hi \o ",",
           pio_address,
           "",
           "Vishay: " \o StrOr(a.subject,
               "Soochna ka Adhikar Adhiniyam, 2005 ke tahat soochna prapt karne ka aavedan"),
           "",
           "Mahoday/Mahodaya,",
           "",
           "Main, neeche hastaksharkarta, Bharat ka nagrik hoon aur Soochna ka Adhikar",
           "Adhiniyam, 2005 ki dhara 6(1) ke tahat nimnalikhit soochna prapt karna chahta/chahti hoon:",
           "" >>
        \o QuestionLines(a.questions)
        \o (IF a.is_bpl
            THEN << "Main garibi rekha se neeche (BPL) ki shreni mein aata/aati hoon aur RTI Adhiniyam, 2005",
                    "ki dhara 7(5) ke tahat shulk se mukt hoon.",
                    "BPL pramanpatra sankhya: "
                        \o OrDefault(a.bpl_certificate_number, "[BPL sankhya]") >>
            ELSE << "Main RTI Adhiniyam, 2005 ke tahat nirdharit shulk ke roop mein",
                    "Rs " \o str(context.fee)
                        \o "/- ka Bharatiya Postal Order / Demand Draft sanlagn kar raha/rahi hoon." >>)
        \o << "",
              "Kripya uparokt soochna RTI Adhiniyam, 2005 ki dhara 7(1) ke tahat",
              "nirdharit 30 dinon ke bheetar uplabdh karayen.",
              "",
              "Bhavdiya/Bhavdiyaa,",
              "",
              "Naam: " \o a.applicant_name,
              "Pata: " \o a.applicant_address >>
        \o ContactLines(a, "Fon: ", "Imel: ")

EnglishBanner ==
    << Repeat("=", 70), "ENGLISH VERSION / Angrezi Sanskaran", Repeat("=", 70), "" >>
HindiBanner ==
    << Repeat("=", 70), "Hindi Sanskaran / HINDI VERSION", Repeat("=", 70), "" >>

\* Variant: the Hindi version comes first.
_generate_bilingual_HindiFirst(context) ==
    HindiBanner \o _generate_hindi(context) \o <<"">>
        \o EnglishBanner \o _generate_english(context)

\* banner + english + "\n\n" + banner + hindi
_generate_bilingual(context) ==
    EnglishBanner \o _generate_english(context) \o <<"">>
        \o HindiBanner \o _generate_hindi(context)

\* The context of generate, lines 190-200.
Context(application, agency) ==
    [ app                   |-> application,
      agency                |-> agency,
      fee                   |-> fee_amount(application),
      date                  |-> strftime(application.filing_date),
      date_hi               |-> _format_date_hindi(application.filing_date),
      response_deadline     |-> strftime(response_deadline(application.filing_date)),
      first_appeal_deadline |->
          strftime(first_appeal_deadline(application.filing_date)) ]

\* The branches of generate on application.language, lines 202-207.
Rendered(context) ==
    IF context.app.language = "hindi" THEN _generate_hindi(context)
    ELSE IF context.app.language = "bilingual" THEN _generate_bilingual(context)
    ELSE _generate_english(context)

\* What an operation of the generator returns or raises, and the application
\* as it leaves it.
Gave(text, application) ==
    [kind |-> "text", val |-> text, application |-> application]
Raised(error, application) ==
    [kind |-> "raise", val |-> <<error>>, application |-> application]

\* Variant: the text is added to the text generated before.
generate_AppendsToCache(application) ==
    LET agency == dict_get(AGENCY_DIRECTORY, application.agency_code, EmptyDict)
        text == application.generated_text \o Rendered(Context(application, agency))
    IN  Gave(text, [application EXCEPT !.generated_text = text])

\* Variant: the agency is looked up without a default.
generate_UnknownAgencyFails(application) ==
    IF application.agency_code \notin DOMAIN AGENCY_DIRECTORY
    THEN Raised("KeyError", application)
    ELSE LET agency == AGENCY_DIRECTORY[application.agency_code]
             text == Rendered(Context(application, agency))
         IN  Gave(text, [application EXCEPT !.generated_text = text])

generate(application) ==
    LET agency == dict_get(AGENCY_DIRECTORY, application.agency_code, EmptyDict)
        text == Rendered(Context(application, agency))
    IN  Gave(text, [application EXCEPT !.generated_text = text])

----------------------------------------------------------------------------
(* Templates, rti_generator.py:212-228 and 385-394.  A template's text is   *)
(* the sequence of its characters.                                          *)

Whitespace == {" ", "\n", "\t"}

RECURSIVE lstrip(_)
lstrip(text) ==
    IF text # <<>> /\ text[1] \in Whitespace THEN lstrip(Tail(text)) ELSE text

RECURSIVE rstrip(_)
rstrip(text) ==
    IF text # <<>> /\ text[Len(text)] \in Whitespace
    THEN rstrip(SubSeq(text, 1, Len(text) - 1))
    ELSE text

\* str.strip()
strip(text) == rstrip(lstrip(text))

\* Position of the first sep in text, 0 when there is none.
find(text, sep) ==
    IF \E i \in 1..Len(text) : text[i] = sep
    THEN CHOOSE i \in 1..Len(text) :
             text[i] = sep /\ \A j \in 1..(i - 1) : text[j] # sep
    ELSE 0

\* str.split(sep) for a one-character sep
RECURSIVE split(_, _)
split(text, sep) ==
    LET i == find(text, sep)
    IN  IF i = 0 THEN <<text>>
        ELSE <<SubSeq(text, 1, i - 1)>> \o split(SubSeq(text, i + 1, Len(text)), sep)

\* str.isdigit() of one character
isdigit(c) == \E k \in 1..10 : DecimalDigits[k] = c

\* line[:n]
Slice(text, n) == SubSeq(text, 1, IF n < Len(text) THEN n ELSE Len(text))

\* The questions of the lines from the k-th on, lines 389-393.
RECURSIVE QuestionsFrom(_, _)
QuestionsFrom(lines, k) ==
    IF k > Len(lines) THEN <<>>
    ELSE LET line == strip(lines[k])
             numbered == /\ line # <<>>
                         /\ isdigit(line[1])
                         /\ find(Slice(line, 4), ".") # 0
             \* line.split(".", 1)[1].strip()
             question == strip(SubSeq(line, find(line, ".") + 1, Len(line)))
         IN  (IF numbered /\ question # <<>> THEN <<Spell(question)>> ELSE <<>>)
             \o QuestionsFrom(lines, k + 1)

_extract_template_questions(template_text) ==
    QuestionsFrom(split(strip(template_text), "\n"), 1)

\* The files of the template directory: one with numbered, blank and other
\* lines, one without numbered lines, and one with a line that starts with a
\* digit and has a dot among its first four characters.
TemplateDir ==
    [ numbered |-> <<
        "R", "T", "I", " ", "t", "e", "m", "p", "l", "a", "t", "e", "\n", "\n", "1",
        ".", " ", "f", "o", "o", "\n", "S", "e", "e", " ", "t", "h", "e", " ", "a",
        "n", "n", "e", "x", "u", "r", "e", "\n", " ", " ", "2", ".", " ", "b", "a",
        "r", "\n" >>,
      plain    |-> <<
        "T", "o", " ", "t", "h", "e", " ", "P", "I", "O", "\n", "\n", "P", "l", "e",
        "a", "s", "e", " ", "r", "e", "p", "l", "y", "\n" >>,
      loose    |-> <<
        "5", " ", "p", ".", "m", ".", " ", "d", "e", "a", "d", "l", "i", "n", "e",
        "\n", "1", ".", " ", "f", "o", "o", "\n" >> ]

\* Variant: the questions are replaced also when none was extracted.
generate_from_template_AlwaysReplaces(template_name, application) ==
    IF template_name \notin DOMAIN TemplateDir
    THEN Raised("FileNotFoundError", application)
    ELSE LET questions == _extract_template_questions(TemplateDir[template_name])
         IN  generate([application EXCEPT !.questions = questions])

generate_from_template(template_name, application) ==
    IF template_name \notin DOMAIN TemplateDir
    THEN Raised("FileNotFoundError", application)
    ELSE LET questions == _extract_template_questions(TemplateDir[template_name])
         IN  generate(IF questions # <<>>
                      THEN [application EXCEPT !.questions = questions]
                      ELSE application)

----------------------------------------------------------------------------
(* Reading a record, rti_tracker.py:311-317 and 354-381. *)

IsoOrNone(o) == IF o = None THEN None ELSE Some(isoformat(Val(o)))

\* Variant: the district key is filled from the state column.
_record_to_dict_StateTwice(record, t) ==
    [ id                    |-> record.id,
      reference_number      |-> record.reference_number,
      agency_code           |-> record.agency_code,
      agency_name           |-> record.agency_name,
      applicant_name        |-> record.applicant_name,
      subject               |-> record.subject,
      questions             |-> json_loads(record.questions_json),
      state                 |-> record.state,
      district              |-> record.state,
      filing_date           |-> isoformat(record.filing_date),
      fee_amount            |-> record.fee_amount,
      status                |-> record.status,
      response_deadline     |-> isoformat(record.response_deadline),
      response_date         |-> IsoOrNone(record.response_date),
      response_summary      |-> record.response_summary,
      first_appeal_date     |-> IsoOrNone(record.first_appeal_date),
      first_appeal_deadline |-> IsoOrNone(record.first_appeal_deadline),
      second_appeal_date    |-> IsoOrNone(record.second_appeal_date),
      notes                 |-> record.notes,
      days_since_filing     |-> t - record.filing_date,
      is_overdue            |-> /\ t > record.response_deadline
                                /\ record.status \in {"filed", "acknowledged"} ]

_record_to_dict(record, t) ==
    [ id                    |-> record.id,
      reference_number      |-> record.reference_number,
      agency_code           |-> record.agency_code,
      agency_name           |-> record.agency_name,
      applicant_name        |-> record.applicant_name,
      subject               |-> record.subject,
      questions             |-> json_loads(record.questions_json),
      state                 |-> record.state,
      district              |-> record.district,
      filing_date           |-> isoformat(record.filing_date),
      fee_amount            |-> record.fee_amount,
      status                |-> record.status,
      response_deadline     |-> isoformat(record.response_deadline),
      response_date         |-> IsoOrNone(record.response_date),
      response_summary      |-> record.response_summary,
      first_appeal_date     |-> IsoOrNone(record.first_appeal_date),
      first_appeal_deadline |-> IsoOrNone(record.first_appeal_deadline),
      second_appeal_date    |-> IsoOrNone(record.second_appeal_date),
      notes                 |-> record.notes,
      days_since_filing     |-> t - record.filing_date,
      is_overdue            |-> /\ t > record.response_deadline
                                /\ record.status \in {"filed", "acknowledged"} ]

get_by_id(rs, record_id, t) ==
    LET i == session_get(rs, record_id) IN
    IF i = 0 THEN None ELSE Some(_record_to_dict(rs[i], t))

----------------------------------------------------------------------------
(* The queries, rti_tracker.py:272-309 and 330-352.  A query without an     *)
(* ORDER BY returns the rows in table order.                                *)

AwaitingResponse == {"filed", "acknowledged"}

ToDicts(records, t) == [i \in 1..Len(records) |-> _record_to_dict(records[i], t)]

\* Variant: a deadline that falls on the present moment counts as passed.
get_overdue_Inclusive(rs, t) ==
    LET Overdue(r) == r.response_deadline <= t /\ r.status \in AwaitingResponse
    IN  ToDicts(SelectSeq(rs, Overdue), t)

get_overdue(rs, t) ==
    LET Overdue(r) == r.response_deadline < t /\ r.status \in AwaitingResponse
    IN  ToDicts(SelectSeq(rs, Overdue), t)

\* Variant: a deadline that falls on the present moment is left out.
get_upcoming_deadlines_Exclusive(rs, days, t) ==
    LET cutoff == t + days
        Upcoming(r) == /\ r.response_deadline > t
                       /\ r.response_deadline <= cutoff
                       /\ r.status \in AwaitingResponse
    IN  ToDicts(SelectSeq(rs, Upcoming), t)

get_upcoming_deadlines(rs, days, t) ==
    LET cutoff == t + days
        Upcoming(r) == /\ r.response_deadline >= t
                       /\ r.response_deadline <= cutoff
                       /\ r.status \in AwaitingResponse
    IN  ToDicts(SelectSeq(rs, Upcoming), t)

\* The rows a status filter keeps; `if status:` holds for every RTIStatus.
Filtered(rs, status) ==
    LET Keep(r) == status = None \/ r.status = Val(status)
    IN  SelectSeq(rs, Keep)

\* Variant: the rows come back in table order.
get_all_TableOrder(rs, status, t) == { ToDicts(Filtered(rs, status), t) }

\* order_by(filing_date.desc()): the lists get_all may return.  Rows with the
\* same filing_date come in an order the query does not fix.
get_all(rs, status, t) ==
    LET sel == Filtered(rs, status)
        n == Len(sel)
        Sorted(p) == /\ \A i, j \in 1..n : i # j => p[i] # p[j]
                     /\ \A i, j \in 1..n :
                           i < j => sel[p[i]].filing_date >= sel[p[j]].filing_date
    IN  { ToDicts([i \in 1..n |-> sel[p[i]]], t) : p \in { q \in [1..n -> 1..n] : Sorted(q) } }

\* json.dumps(records, indent=2, ensure_ascii=False): one object per dict.
json_dumps_records(records) ==
    [ i \in 1..Len(records) |-> <<"object", records[i]>> ]

\* The texts export_json may return, one for each list get_all may return.
export_json(rs, t) ==
    { json_dumps_records(records) : records \in get_all(rs, None, t) }

CountWithStatus(rs, status) ==
    Cardinality({ i \in 1..Len(rs) : rs[i].status = status })

\* Variant: every status has a key, also with a count of 0.
get_stats_AllKeys(rs, t) ==
    [ total                 |-> Len(rs),
      by_status             |-> [ st \in RTIStatus |-> CountWithStatus(rs, st) ],
      overdue               |-> Len(get_overdue(rs, t)),
      upcoming_deadlines_7d |-> Len(get_upcoming_deadlines(rs, 7, t)) ]

\* Variant: total counts the records that await a response.
get_stats_TotalAwaiting(rs, t) ==
    [ total                 |->
          Cardinality({ i \in 1..Len(rs) : rs[i].status \in AwaitingResponse }),
      by_status             |->
          [ st \in { x \in RTIStatus : CountWithStatus(rs, x) > 0 }
              |-> CountWithStatus(rs, st) ],
      overdue               |-> Len(get_overdue(rs, t)),
      upcoming_deadlines_7d |-> Len(get_upcoming_deadlines(rs, 7, t)) ]

get_stats(rs, t) ==
    [ total                 |-> Len(rs),
      by_status             |->
          [ st \in { x \in RTIStatus : CountWithStatus(rs, x) > 0 }
              |-> CountWithStatus(rs, st) ],
      overdue               |-> Len(get_overdue(rs, t)),
      upcoming_deadlines_7d |-> Len(get_upcoming_deadlines(rs, 7, t)) ]

----------------------------------------------------------------------------
(* The callers' inputs. *)

StartDay == MaxDateSteps * DayStep
Dates == { k * DayStep : k \in 0..MaxDateSteps }
DateArgs == {None} \cup { Some(d) : d \in Dates }
NoteArgs == { None, Some(""), Some("no reply in 30 days") }
SummaryArgs == { None, Some("partial data") }
DocumentArgs == { None, Some(<<>>), Some(<<"CTO list", "Effluent data">>) }
RecordIds == 1..(MaxRecords + 1)

\* Filing dates: the dates above and the day whose response deadline falls
\* on the first day of the model.
FilingDateArgs == DateArgs \cup { Some(StartDay - ResponseDays) }

\* Windows for get_upcoming_deadlines: none, the default, and the response period.
DaysArgs == { 0, 7, ResponseDays }

StatusFilterArgs == {None} \cup { Some(st) : st \in RTIStatus }

\* Two applications: one with only the required arguments, one with every
\* optional argument supplied.
Applications ==
    { [ agency_code |-> "awbi", agency_name |-> "Animal Welfare Board of India",
        applicant_name |-> "Test Advocate", subject |-> "Test RTI",
        questions |-> <<"Question 1", "Question 2">>, fee_amount |-> 10,
        state |-> None, district |-> None, full_text |-> None,
        reference_number |-> None ],
      [ agency_code |-> "fssai", agency_name |-> "FSSAI",
        applicant_name |-> "Test", subject |-> "Test FSSAI RTI",
        questions |-> <<"Q1">>, fee_amount |-> 0,
        state |-> Some("Karnataka"), district |-> Some("Bengaluru"),
        full_text |-> Some("To, The PIO ..."),
        reference_number |-> Some("RTI/2026/001") ] }

WithDate(app, d) ==
    [ agency_code |-> app.agency_code, agency_name |-> app.agency_name,
      applicant_name |-> app.applicant_name, subject |-> app.subject,
      questions |-> app.questions, filing_date |-> d,
      fee_amount |-> app.fee_amount, state |-> app.state,
      district |-> app.district, full_text |-> app.full_text,
      reference_number |-> app.reference_number ]

AddArgs == { WithDate(app, d) : app \in Applications, d \in FilingDateArgs }

\* Every status without a note, and two statuses with every note and summary.
UpdateStatusArgs ==
    [ record_id : RecordIds, status : RTIStatus, notes : {None},
      response_summary : {None} ]
    \cup
    [ record_id : RecordIds, status : {"acknowledged", "response_received"},
      notes : NoteArgs, response_summary : SummaryArgs ]

MarkResponseArgs ==
    [ record_id : RecordIds, response_summary : {"Received partial data"},
      documents : DocumentArgs, response_date : DateArgs ]

FirstAppealArgs ==
    [ record_id : RecordIds, appeal_authority : {"Secretary, AWBI"},
      appeal_date : DateArgs, notes : NoteArgs ]

SecondAppealArgs ==
    [ record_id : RecordIds, appeal_date : DateArgs,
      commission : {None, Some("State Information Commission")},
      notes : NoteArgs ]

Mutators ==
    { "update_status", "mark_response_received", "file_first_appeal",
      "file_second_appeal" }

----------------------------------------------------------------------------
(* The state machine: a caller invoking the tracker, and the clock. *)

Init ==
    /\ rows = <<>>
    /\ before = <<>>
    /\ now = StartDay
    /\ call = [op |-> "none", args |-> None, at |-> StartDay]
    /\ result = [kind |-> "none", val |-> None]
    /\ repeated = None
    /\ filedVia = {}
    /\ nops = 0
    /\ draft = None
    /\ read = [op |-> "none", arg |-> None, kind |-> "none", val |-> None, was |-> None]

\* The model follows a caller for MaxOps invocations.
CanInvoke == nops < MaxOps

\* The ids a caller passes: those of the stored records and the first unused one.
KnownOrNext(id) == id \in Ids(rows) \cup {NextId(rows)}

\* The bookkeeping every invocation shares.
Invoke(op, a, out) ==
    /\ nops' = nops + 1
    /\ rows' = out.rows
    /\ before' = rows
    /\ result' = out.result
    /\ call' = [op |-> op, args |-> a, at |-> now]
    /\ repeated' = IF call.op = op /\ call.args = a THEN Some(now - call.at) ELSE None
    /\ filedVia' = IF op \in Mutators /\ out.result.kind = "bool" /\ out.result.val = TRUE
                   THEN filedVia \cup {<<a.record_id, op>>}
                   ELSE filedVia
    /\ UNCHANGED <<now, draft, read>>

AddRti ==
    /\ CanInvoke
    /\ \E a \in AddArgs :
        /\ Len(rows) < MaxRecords
        /\ Invoke("add_rti", a, add_rti(rows, a, now))

UpdateStatus ==
    /\ CanInvoke
    /\ \E a \in UpdateStatusArgs :
        /\ KnownOrNext(a.record_id)
        /\ Invoke("update_status", a, update_status(rows, a, now))

MarkResponseReceived ==
    /\ CanInvoke
    /\ \E a \in MarkResponseArgs :
        /\ KnownOrNext(a.record_id)
        /\ Invoke("mark_response_received", a, mark_response_received(rows, a, now))

FileFirstAppeal ==
    /\ CanInvoke
    /\ \E a \in FirstAppealArgs :
        /\ KnownOrNext(a.record_id)
        /\ Invoke("file_first_appeal", a, file_first_appeal(rows, a, now))

FileSecondAppeal ==
    /\ CanInvoke
    /\ \E a \in SecondAppealArgs :
        /\ KnownOrNext(a.record_id)
        /\ Invoke("file_second_appeal", a, file_second_appeal(rows, a, now))

GetById ==
    /\ CanInvoke
    /\ \E id \in RecordIds :
        /\ KnownOrNext(id)
        /\ Invoke("get_by_id", [record_id |-> id],
                  [rows |-> rows,
                   result |-> [kind |-> "dict", val |-> get_by_id(rows, id, now)]])

\* A query leaves the table as it is.
Query(op, a, kind, val) ==
    Invoke(op, a, [rows |-> rows, result |-> [kind |-> kind, val |-> val]])

GetOverdue ==
    /\ CanInvoke
    /\ Query("get_overdue", None, "list", get_overdue(rows, now))

GetUpcomingDeadlines ==
    /\ CanInvoke
    /\ \E days \in DaysArgs :
        Query("get_upcoming_deadlines", [days |-> days], "list",
              get_upcoming_deadlines(rows, days, now))

GetAll ==
    /\ CanInvoke
    /\ \E status \in StatusFilterArgs :
        \E records \in get_all(rows, status, now) :
            Query("get_all", [status |-> status], "list", records)

GetStats ==
    /\ CanInvoke
    /\ Query("get_stats", None, "stats", get_stats(rows, now))

\* export_json without a filepath.
ExportJson ==
    /\ CanInvoke
    /\ \E data \in export_json(rows, now) :
        Query("export_json", None, "json", data)

\* Time passes between two invocations.
Tick ==
    /\ CanInvoke
    /\ now < StartDay + MaxTicks * DayStep
    /\ now' = now + DayStep
    /\ UNCHANGED <<rows, before, call, result, repeated, filedVia, nops, draft, read>>

Next ==
    \/ AddRti
    \/ UpdateStatus
    \/ MarkResponseReceived
    \/ FileFirstAppeal
    \/ FileSecondAppeal
    \/ GetById
    \/ GetOverdue
    \/ GetUpcomingDeadlines
    \/ GetAll
    \/ GetStats
    \/ ExportJson
    \/ Tick

Spec == Init /\ [][Next]_vars

----------------------------------------------------------------------------
(* The draft: an RTIApplication is constructed and its computed properties *)
(* are read; the tracker is not used.                                      *)

Gujarat == <<"G", "u", "j", "a", "r", "a", "t">>
TamilNadu == <<"T", "a", "m", "i", "l", " ", "N", "a", "d", "u">>

\* Regions: absent, empty, in the fee table as written, in it after
\* normalisation, and not in it.
StateArgs ==
    { None, Some(<<>>), Some(Gujarat), Some(lower(Gujarat)),
      Some(TamilNadu), Some(<<"t", "a", "m", "i", "l", "_", "n", "a", "d", "u">>),
      Some(<<"C", "E", "N", "T", "R", "A", "L">>),
      Some(<<"S", "i", "k", "k", "i", "m">>),
      Some(<<" ", "G", "o", "a">>) }

\* The agencies of the directory and one that is not in it.
AgencyArgs == DOMAIN AGENCY_DIRECTORY \cup {"unknown_agency"}

DraftDateArgs ==
    { None, Some(date(2026, 1, 1)), Some(date(2024, 1, 31)), Some(date(2026, 12, 31)) }

TemplateArgs == DOMAIN TemplateDir \cup {"missing"}

\* Applications that differ in what the fee depends on.
FeeApplicationArgs ==
    [ agency_code : AgencyArgs, questions : {<<"Test question">>},
      applicant_name : {"Test Applicant"}, applicant_address : {"Test Address"},
      applicant_phone : {None}, applicant_email : {None},
      is_bpl : BOOLEAN, bpl_certificate_number : {None}, language : {"english"},
      state : StateArgs, subject : {""}, filing_date : {Some(date(2026, 1, 1))},
      custom_pio_address : {None} ]

\* Applications that differ in what the deadlines depend on.
DatedApplicationArgs ==
    [ agency_code : {"awbi"}, questions : {<<"Test question">>},
      applicant_name : {"Test Applicant"}, applicant_address : {"Test Address"},
      applicant_phone : {None}, applicant_email : {None},
      is_bpl : {FALSE}, bpl_certificate_number : {None}, language : {"english"},
      state : {None}, subject : {""}, filing_date : DraftDateArgs,
      custom_pio_address : {None} ]

Contacts ==
    { [phone |-> None, email |-> None],
      [phone |-> Some("9999999999"), email |-> Some("test@example.com")] }

\* Applications that differ in what the renderings depend on.
RenderApplicationArgs ==
    { [ agency_code |-> code,
        questions |-> <<"What inspections were conducted at XYZ Farm?",
                        "Provide copies of inspection reports.">>,
        applicant_name |-> "Test Advocate", applicant_address |-> "123 Test Street, Delhi",
        applicant_phone |-> c.phone, applicant_email |-> c.email,
        is_bpl |-> bpl,
        bpl_certificate_number |-> IF bpl THEN Some("BPL/2025/12345") ELSE None,
        language |-> language, state |-> None, subject |-> subject,
        filing_date |-> Some(date(2026, 1, 1)),
        custom_pio_address |-> address ] :
      code \in {"awbi", "unknown_agency"},
      c \in Contacts,
      bpl \in BOOLEAN,
      language \in {"english", "hindi", "bilingual"},
      subject \in {"", "Inspection reports"},
      address \in {None, Some("PIO, AWBI Regional Office, Delhi")} }

ApplicationArgs ==
    FeeApplicationArgs \cup DatedApplicationArgs \cup RenderApplicationArgs

InitDraft ==
    /\ rows = <<>>
    /\ before = <<>>
    /\ now = StartDay
    /\ call = [op |-> "none", args |-> None, at |-> StartDay]
    /\ result = [kind |-> "none", val |-> None]
    /\ repeated = None
    /\ filedVia = {}
    /\ nops = 0
    /\ draft \in { Some(RTIApplication(a, StartDay)) : a \in ApplicationArgs }
    /\ read = [op |-> "none", arg |-> None, kind |-> "none", val |-> None, was |-> None]

\* An operation on the draft: what it was called with, what it returned or
\* raised, the application before it and the application after it.
Operate(op, arg, kind, val, after) ==
    /\ read' = [op |-> op, arg |-> arg, kind |-> kind, val |-> val, was |-> draft]
    /\ draft' = Some(after)
    /\ UNCHANGED <<rows, before, now, call, result, repeated, filedVia, nops>>

ReadProperty(op, val) == Operate(op, None, "value", val, Val(draft))

FeeAmount == ReadProperty("fee_amount", fee_amount(Val(draft)))

ResponseDeadline ==
    ReadProperty("response_deadline", response_deadline(Val(draft).filing_date))

FirstAppealDeadline ==
    ReadProperty("first_appeal_deadline", first_appeal_deadline(Val(draft).filing_date))

SecondAppealDeadline ==
    ReadProperty("second_appeal_deadline", second_appeal_deadline(Val(draft).filing_date))

Generate ==
    LET out == generate(Val(draft))
    IN  Operate("generate", None, out.kind, out.val, out.application)

GenerateFromTemplate ==
    \E template_name \in TemplateArgs :
        LET out == generate_from_template(template_name, Val(draft))
        IN  Operate("generate_from_template", Some(template_name),
                    out.kind, out.val, out.application)

ExtractTemplateQuestions ==
    \E template_name \in DOMAIN TemplateDir :
        Operate("_extract_template_questions", Some(template_name), "value",
                _extract_template_questions(TemplateDir[template_name]),
                Val(draft))

NextDraft ==
    \/ FeeAmount
    \/ ResponseDeadline
    \/ FirstAppealDeadline
    \/ SecondAppealDeadline
    \/ Generate
    \/ GenerateFromTemplate
    \/ ExtractTemplateQuestions

SpecDraft == InitDraft /\ [][NextDraft]_vars

----------------------------------------------------------------------------
(* What the last operation was, for the properties below. *)

Added == call.op = "add_rti" /\ result.kind = "id"
AddedRow == rows[session_get(rows, result.val)]
Succeeded == result.kind = "bool" /\ result.val = TRUE
MutatorDone == call.op \in Mutators /\ Succeeded
\* Position of the record a mutator was called on; a mutator keeps positions.
Target == session_get(before, call.args.record_id)
NotesOf(record) == IF record.notes = None THEN <<>> ELSE Val(record.notes)
IsPrefix(s, t) == Len(s) <= Len(t) /\ SubSeq(t, 1, Len(s)) = s

----------------------------------------------------------------------------
(* C1: add creates the record in status filed when the caller supplied a   *)
(* filing_date and in status drafted when the caller supplied none.        *)
C1_StatusFollowsSuppliedDate ==
    Added =>
        AddedRow.status = IF call.args.filing_date # None THEN "filed" ELSE "drafted"

(* C1 as amended: add creates the record in status filed whether or not a  *)
(* filing_date was supplied; an omitted filing_date is set to the current  *)
(* time first, so drafted is never the initial status.                     *)
C1_AddAlwaysFiled ==
    Added =>
        /\ AddedRow.status = "filed"
        /\ AddedRow.filing_date = OrElse(call.args.filing_date, call.at)

C1_Witness ==
    /\ Added
    /\ call.args.filing_date = None
    /\ AddedRow.status = "filed"

(* C2: after add, get on the returned id yields a record in which every    *)
(* supplied field of agency_code, agency_name, applicant_name, subject,    *)
(* questions, filing_date, fee_amount, state, district, full_text and      *)
(* reference_number is present with the supplied value (a date as the      *)
(* ISO-8601 text of the supplied date).                                    *)
RoundTripsExceptFullText(a, d) ==
    /\ d.agency_code = a.agency_code
    /\ d.agency_name = a.agency_name
    /\ d.applicant_name = a.applicant_name
    /\ d.subject = a.subject
    /\ d.questions = a.questions
    /\ d.fee_amount = a.fee_amount
    /\ a.filing_date # None => d.filing_date = isoformat(Val(a.filing_date))
    /\ a.state # None => d.state = a.state
    /\ a.district # None => d.district = a.district
    /\ a.reference_number # None => d.reference_number = a.reference_number

C3_MissingIdIsNotFound ==
    /\ (call.op = "get_by_id" /\ call.args.record_id \notin Ids(before)) =>
          /\ result.kind = "dict"
          /\ result.val = None
          /\ rows = before
    /\ (call.op \in Mutators /\ call.args.record_id \notin Ids(before)) =>
          /\ result.kind = "bool"
          /\ result.val = FALSE
          /\ rows = before

C3_Witness ==
    /\ call.op \in Mutators
    /\ Len(before) > 0
    /\ call.args.record_id \notin Ids(before)
    /\ result.kind = "bool"
    /\ result.val = FALSE

NoteOps == {"update_status", "file_first_appeal", "file_second_appeal"}

NotePrefix(op) ==
    CASE op = "update_status" -> ""
      [] op = "file_first_appeal" -> "First appeal: "
      [] op = "file_second_appeal" -> "Second appeal: "

C8_NotesAppendOnly ==
    /\ Len(before) <= Len(rows)
    /\ \A i \in 1..Len(before) :
          /\ rows[i].id = before[i].id
          /\ IsPrefix(NotesOf(before[i]), NotesOf(rows[i]))
          /\ rows[i].notes = before[i].notes
             \/ /\ call.op \in NoteOps
                /\ Succeeded
                /\ i = Target
                /\ call.args.notes \notin {None, Some("")}
                /\ rows[i].notes =
                      Some(Append(NotesOf(before[i]),
                                  [ timestamp |-> call.at,
                                    prefix |-> NotePrefix(call.op),
                                    text |-> Val(call.args.notes) ]))
    /\ (call.op \in NoteOps /\ Succeeded /\ call.args.notes \notin {None, Some("")}) =>
          Len(NotesOf(rows[Target])) = Len(NotesOf(before[Target])) + 1
    /\ Added => AddedRow.notes = None

\* The same call with a note made twice: the log ends in two equal lines.
C8_Witness ==
    /\ call.op \in NoteOps
    /\ Succeeded
    /\ repeated # None
    /\ call.args.notes \notin {None, Some("")}
    /\ LET log == NotesOf(rows[Target]) IN
       /\ Len(log) >= 2
       /\ log[Len(log)].text = log[Len(log) - 1].text
       /\ log[Len(log)].prefix = log[Len(log) - 1].prefix

(* C9: every mutator is idempotent on all fields other than the notes log: *)
(* invoking it twice in succession on the same record with the same        *)
(* arguments leaves each such field as the first invocation left it.       *)
C9_IdempotentExceptNotes ==
    (repeated # None /\ MutatorDone) =>
        \A f \in (DOMAIN rows[Target]) \ {"notes"} :
            rows[Target][f] = before[Target][f]

\* The columns a call takes from the clock rather than from its arguments.
ClockStamped(op, a) ==
    {"updated_at"}
    \cup (IF op = "update_status" /\ a.status = "response_received"
          THEN {"response_date"} ELSE {})
    \cup (IF op = "mark_response_received" /\ a.response_date = None
          THEN {"response_date"} ELSE {})
    \cup (IF op = "file_first_appeal" /\ a.appeal_date = None
          THEN {"first_appeal_date", "first_appeal_deadline"} ELSE {})
    \cup (IF op = "file_second_appeal" /\ a.appeal_date = None
          THEN {"second_appeal_date", "second_appeal_deadline"} ELSE {})

(* C9 as amended: every mutator is idempotent on all fields other than the *)
(* notes log and the fields the call stamps from the current time:         *)
(* updated_at always, response_date for update_status to response_received *)
(* and for mark_response_received without a response_date, the appeal date *)
(* and deadline for file_first_appeal / file_second_appeal without an      *)
(* appeal date.  Those take the time of the second invocation, and are     *)
(* unchanged too when no time passes between the two.                      *)
C9_IdempotentExceptNotesAndClock ==
    (repeated # None /\ MutatorDone) =>
        /\ \A f \in (DOMAIN rows[Target]) \ ({"notes"} \cup ClockStamped(call.op, call.args)) :
              rows[Target][f] = before[Target][f]
        /\ rows[Target].updated_at = call.at
        /\ Val(repeated) = 0 =>
              \A f \in (DOMAIN rows[Target]) \ {"notes"} :
                  rows[Target][f] = before[Target][f]

\* mark_response_received repeated some days later with the same documents
\* and the same explicit response_date.
C9_Witness ==
    /\ repeated # None
    /\ Val(repeated) > 0
    /\ call.op = "mark_response_received"
    /\ Succeeded
    /\ call.args.response_date # None
    /\ call.args.documents \notin {None, Some(<<>>)}
    /\ rows[Target].updated_at # before[Target].updated_at

(* C10: update_status to response_received sets the record's response_date *)
(* to the current time, replacing any response_date recorded earlier;      *)
(* update_status to any other status leaves response_date unchanged.       *)
C10_ResponseDateStamp ==
    (call.op = "update_status" /\ Succeeded) =>
        IF call.args.status = "response_received"
        THEN rows[Target].response_date = Some(call.at)
        ELSE rows[Target].response_date = before[Target].response_date

\* The response_date given to mark_response_received is replaced.
C10_Witness ==
    /\ call.op = "update_status"
    /\ Succeeded
    /\ call.args.status = "response_received"
    /\ before[Target].response_date # None
    /\ before[Target].response_date # Some(call.at)
    /\ rows[Target].response_date = Some(call.at)

----------------------------------------------------------------------------
(* Claims about the response, the statuses and the permanence of records. *)

\* The documents a record holds; a record without any holds the empty list.
DocsOf(record) ==
    IF record.documents_received = None
    THEN <<>>
    ELSE json_loads(Val(record.documents_received))

(* C11: mark_response_received on an existing record, whatever its status, *)
(* sets status to response_received, response_date to the date given (the  *)
(* current time when none is given), response_summary to the summary, and  *)
(* documents_received to the documents list given, the empty list too.     *)
C11_MarkSetsAllFields ==
    (call.op = "mark_response_received" /\ Target # 0) =>
        /\ Succeeded
        /\ rows[Target].status = "response_received"
        /\ rows[Target].response_date =
               Some(OrElse(call.args.response_date, call.at))
        /\ rows[Target].response_summary = Some(call.args.response_summary)
        /\ call.args.documents # None =>
               DocsOf(rows[Target]) = Val(call.args.documents)

\* The status each mutator leaves on its record.
StatusSetBy(op, a) ==
    CASE op = "update_status" -> a.status
      [] op = "mark_response_received" -> "response_received"
      [] op = "file_first_appeal" -> "first_appeal_filed"
      [] op = "file_second_appeal" -> "second_appeal_filed"

(* C12: no status is terminal.  update_status on an existing record        *)
(* succeeds from every status to every status and sets it; a record's      *)
(* status is the one its last successful mutator set: every successful     *)
(* mutator sets its status, and nothing else changes a status.             *)
C12_NoStatusTerminal ==
    /\ Len(before) <= Len(rows)
    /\ (call.op = "update_status" /\ Target # 0) => Succeeded
    /\ MutatorDone => rows[Target].status = StatusSetBy(call.op, call.args)
    /\ \A i \in 1..Len(before) :
          (~MutatorDone \/ i # Target) => rows[i].status = before[i].status

\* A closed record is moved to another status.
C12_Witness ==
    /\ call.op = "update_status"
    /\ Succeeded
    /\ before[Target].status = "closed"
    /\ rows[Target].status # "closed"
    /\ rows[Target].status = call.args.status

\* The columns add_rti fills from the application.
FixedAtAdd ==
    {"agency_code", "agency_name", "applicant_name", "subject", "questions_json",
     "filing_date", "fee_amount", "state", "district"}

(* C13: records are never deleted and their application data never change: *)
(* every record of the table is still in it after each operation, under    *)
(* the same id, get_by_id finds it, the columns filled at add keep their   *)
(* values, and a record added has an id above every earlier one.           *)
C13_RecordsPermanent ==
    /\ Len(before) <= Len(rows)
    /\ \A i \in 1..Len(before) :
          /\ rows[i].id = before[i].id
          /\ \A f \in FixedAtAdd : rows[i][f] = before[i][f]
          /\ get_by_id(rows, before[i].id, now) # None
          /\ Val(get_by_id(rows, before[i].id, now)).id = before[i].id
    /\ \A j \in (Len(before) + 1)..Len(rows) :
          \A i \in 1..Len(before) : rows[j].id > before[i].id

\* A record is closed and is still found, with its application data.
C13_Witness ==
    /\ call.op = "update_status"
    /\ Succeeded
    /\ call.args.status = "closed"
    /\ get_by_id(rows, call.args.record_id, now) # None
    /\ Val(get_by_id(rows, call.args.record_id, now)).status = "closed"
    /\ rows[Target].filing_date = before[Target].filing_date

----------------------------------------------------------------------------
(* Claims about the queries. *)

ReturnedIds == { result.val[k].id : k \in 1..Len(result.val) }
Returned(record) == record.id \in ReturnedIds
EachOnce ==
    \A j, k \in 1..Len(result.val) :
        result.val[j].id = result.val[k].id => j = k

(* C14: get_overdue returns exactly the records whose response_deadline is *)
(* strictly earlier than the current time and whose status is filed or     *)
(* acknowledged.                                                           *)
C14_OverdueExactly ==
    call.op = "get_overdue" =>
        /\ ReturnedIds \subseteq Ids(rows)
        /\ \A i \in 1..Len(rows) :
              Returned(rows[i]) <=>
                  /\ rows[i].response_deadline < call.at
                  /\ rows[i].status \in {"filed", "acknowledged"}

\* A record filed at least 35 days ago is returned, one filed today is not.
C14_Witness ==
    /\ call.op = "get_overdue"
    /\ \E i, j \in 1..Len(rows) :
          /\ rows[i].filing_date + 35 <= call.at
          /\ rows[i].status = "filed"
          /\ Returned(rows[i])
          /\ rows[j].filing_date = call.at
          /\ rows[j].status = "filed"
          /\ ~Returned(rows[j])

(* C15: get_upcoming_deadlines(days) returns exactly the records whose     *)
(* response_deadline lies in the closed interval from the current time to  *)
(* the current time plus days and whose status is filed or acknowledged;   *)
(* at one moment no record is both overdue and upcoming.                   *)
C15_UpcomingExactly ==
    /\ call.op = "get_upcoming_deadlines" =>
          /\ ReturnedIds \subseteq Ids(rows)
          /\ \A i \in 1..Len(rows) :
                Returned(rows[i]) <=>
                    /\ rows[i].response_deadline >= call.at
                    /\ rows[i].response_deadline <= call.at + call.args.days
                    /\ rows[i].status \in {"filed", "acknowledged"}
    /\ \A days \in DaysArgs :
          \A o \in 1..Len(get_overdue(rows, now)) :
              \A u \in 1..Len(get_upcoming_deadlines(rows, days, now)) :
                  get_overdue(rows, now)[o].id
                      # get_upcoming_deadlines(rows, days, now)[u].id

\* A record whose deadline is the present moment is returned for a window
\* of no days, next to an overdue record that is not.
C15_Witness ==
    /\ call.op = "get_upcoming_deadlines"
    /\ call.args.days = 0
    /\ \E i, j \in 1..Len(rows) :
          /\ rows[i].response_deadline = call.at
          /\ Returned(rows[i])
          /\ rows[j].response_deadline < call.at
          /\ rows[j].status = "filed"
          /\ ~Returned(rows[j])

\* The day of an isoformat text.
DayOf(iso) == iso[2]

(* C16: get_all returns every record when no status is given and exactly  *)
(* the records of the given status otherwise, each once, ordered by        *)
(* filing_date, latest first.                                              *)
C16_AllFilteredAndOrdered ==
    call.op = "get_all" =>
        /\ EachOnce
        /\ ReturnedIds \subseteq Ids(rows)
        /\ \A i \in 1..Len(rows) :
              Returned(rows[i]) <=>
                  \/ call.args.status = None
                  \/ rows[i].status = Val(call.args.status)
        /\ \A j, k \in 1..Len(result.val) :
              j < k => DayOf(result.val[j].filing_date) >= DayOf(result.val[k].filing_date)

\* Two records added in the order of their filing dates come back reversed.
C16_Witness ==
    /\ call.op = "get_all"
    /\ call.args.status = None
    /\ Len(rows) = 2
    /\ rows[1].filing_date < rows[2].filing_date
    /\ Len(result.val) = 2
    /\ result.val[1].id = rows[2].id
    /\ result.val[2].id = rows[1].id

(* C17: get_stats returns the number of records, a map from status to      *)
(* count that has a key exactly for the statuses at least one record has,  *)
(* with the exact count, the number of records get_overdue returns and the *)
(* number get_upcoming_deadlines(7) returns.                               *)
C17_StatsExact ==
    call.op = "get_stats" =>
        /\ result.val.total = Len(rows)
        /\ DOMAIN result.val.by_status = { rows[i].status : i \in 1..Len(rows) }
        /\ \A st \in DOMAIN result.val.by_status :
              result.val.by_status[st] =
                  Cardinality({ i \in 1..Len(rows) : rows[i].status = st })
        /\ result.val.overdue =
              Cardinality({ i \in 1..Len(rows) :
                  /\ rows[i].response_deadline < call.at
                  /\ rows[i].status \in {"filed", "acknowledged"} })
        /\ result.val.overdue = Len(get_overdue(rows, call.at))
        /\ result.val.upcoming_deadlines_7d =
              Cardinality({ i \in 1..Len(rows) :
                  /\ rows[i].response_deadline >= call.at
                  /\ rows[i].response_deadline <= call.at + 7
                  /\ rows[i].status \in {"filed", "acknowledged"} })
        /\ result.val.upcoming_deadlines_7d
              = Len(get_upcoming_deadlines(rows, 7, call.at))

\* Two records, one overdue and one due today; only their status has a key.
C17_Witness ==
    /\ call.op = "get_stats"
    /\ result.val.total = 2
    /\ DOMAIN result.val.by_status = {"filed"}
    /\ result.val.by_status["filed"] = 2
    /\ result.val.overdue = 1
    /\ result.val.upcoming_deadlines_7d = 1

----------------------------------------------------------------------------
(* Claims about the export and about what the store keeps. *)

\* The columns of a record other than the timestamps the store sets itself.
OwnFields ==
    {"id", "reference_number", "agency_code", "agency_name", "applicant_name",
     "subject", "questions_json", "full_text", "state", "district", "filing_date",
     "fee_amount", "status", "response_date", "response_deadline",
     "first_appeal_deadline", "second_appeal_deadline", "first_appeal_date",
     "first_appeal_authority", "second_appeal_date", "second_appeal_authority",
     "notes", "response_summary", "documents_received"}

(* C26: export_json emits one object for each record, and the records can  *)
(* be recovered from the export on every column but created_at and         *)
(* updated_at: two stores whose exports at one moment are equal, here the  *)
(* store before and after an operation, have equal records on them.        *)
C26_ExportRoundTrips ==
    /\ call.op = "export_json" => Len(result.val) = Len(rows)
    /\ (Len(before) = Len(rows) /\ export_json(before, now) = export_json(rows, now)) =>
          \A i \in 1..Len(rows) : \A f \in OwnFields : rows[i][f] = before[i][f]

(* C27: the reference_number is unique but nullable: no two records share  *)
(* a reference_number other than None, several records may have None, and  *)
(* an add_rti with a reference_number a record already has raises, adds    *)
(* no record and leaves the table as it was.                               *)
C27_ReferenceUniqueNullable ==
    /\ \A i, j \in 1..Len(rows) :
          (i # j /\ rows[i].reference_number # None)
              => rows[i].reference_number # rows[j].reference_number
    /\ (/\ call.op = "add_rti"
        /\ call.args.reference_number # None
        /\ \E i \in 1..Len(before) :
              before[i].reference_number = call.args.reference_number) =>
          /\ result.kind = "raise"
          /\ rows = before
    /\ (call.op = "add_rti" /\ call.args.reference_number = None) =>
          /\ Added
          /\ Len(rows) = Len(before) + 1

\* The reference number of the only record is given to a second add_rti.
C27_Witness ==
    /\ call.op = "add_rti"
    /\ result.kind = "raise"
    /\ Len(before) = 1
    /\ before[1].reference_number # None
    /\ call.args.reference_number = before[1].reference_number
    /\ rows = before

(* C28: every record's response_deadline is its filing_date + 30 days, and *)
(* no operation changes the filing_date or the response_deadline of a      *)
(* record, filing an appeal included.                                      *)
C28_ResponseDeadlineFixed ==
    /\ \A i \in 1..Len(rows) :
          rows[i].response_deadline = rows[i].filing_date + 30
    /\ Len(before) <= Len(rows)
    /\ \A i \in 1..Len(before) :
          /\ rows[i].filing_date = before[i].filing_date
          /\ rows[i].response_deadline = before[i].response_deadline

\* A first appeal filed after the response deadline leaves the deadline alone.
C28_Witness ==
    /\ call.op = "file_first_appeal"
    /\ Succeeded
    /\ call.at > before[Target].response_deadline
    /\ rows[Target].first_appeal_deadline = Some(call.at + 30)
    /\ rows[Target].response_deadline = rows[Target].filing_date + 30

ResponseFields == {"response_date", "response_summary", "documents_received"}
FirstAppealFields ==
    {"first_appeal_date", "first_appeal_authority", "first_appeal_deadline"}
SecondAppealFields ==
    {"second_appeal_date", "second_appeal_authority", "second_appeal_deadline"}

(* C29: a successful mutator changes no record but the one it is called    *)
(* on; file_first_appeal leaves that record's response and second-appeal   *)
(* columns as they were, file_second_appeal its response and first-appeal  *)
(* columns.                                                                *)
C29_MutatorFrame ==
    MutatorDone =>
        /\ Len(rows) = Len(before)
        /\ \A i \in 1..Len(before) : i # Target => rows[i] = before[i]
        /\ call.op = "file_first_appeal" =>
              \A f \in ResponseFields \cup SecondAppealFields :
                  rows[Target][f] = before[Target][f]
        /\ call.op = "file_second_appeal" =>
              \A f \in ResponseFields \cup FirstAppealFields :
                  rows[Target][f] = before[Target][f]

\* The status of one of two records is changed.
C29_Witness ==
    /\ MutatorDone
    /\ Len(rows) = 2
    /\ rows[Target].status # before[Target].status
    /\ \E i \in 1..2 : i # Target /\ rows[i] = before[i]
                         /\ rows[i].status # rows[Target].status

RECURSIVE SumOver(_, _)
SumOver(f, keys) ==
    IF keys = {} THEN 0
    ELSE LET k == CHOOSE x \in keys : TRUE
         IN  f[k] + SumOver(f, keys \ {k})

(* C30: every record has one of the 14 statuses; the counts by status that *)
(* get_stats returns add up to its total, and its overdue count plus its   *)
(* upcoming count is at most the number of records in status filed or      *)
(* acknowledged.                                                           *)
C30_StatsConsistent ==
    /\ \A i \in 1..Len(rows) : rows[i].status \in RTIStatus
    /\ call.op = "get_stats" =>
          /\ SumOver(result.val.by_status, DOMAIN result.val.by_status)
                = result.val.total
          /\ result.val.overdue + result.val.upcoming_deadlines_7d
                <= Cardinality({ i \in 1..Len(rows) :
                       rows[i].status \in {"filed", "acknowledged"} })

\* A closed record whose response deadline has passed is counted in the total
\* and under its status, and is not overdue.
C30_Witness ==
    /\ call.op = "get_stats"
    /\ result.val.total = 1
    /\ rows[1].status = "closed"
    /\ rows[1].response_deadline < call.at
    /\ result.val.by_status["closed"] = 1
    /\ result.val.overdue = 0

----------------------------------------------------------------------------
(* Claims about the draft's computed properties, under SpecDraft. *)

Draft == Val(draft)

(* C18: the draft-time deadlines are day offsets from the filing_date d,   *)
(* each added to the one before: response_deadline is d + 30 days,         *)
(* first_appeal_deadline d + 60 days, second_appeal_deadline d + 150 days; *)
(* 2026-01-01 gives 2026-01-31, 2026-03-02 and 2026-05-31.                 *)
C18_DeadlineChain ==
    /\ read.op = "response_deadline" =>
          /\ read.val = Draft.filing_date + 30
          /\ Draft.filing_date = date(2026, 1, 1) => read.val = date(2026, 1, 31)
    /\ read.op = "first_appeal_deadline" =>
          /\ read.val = Draft.filing_date + 60
          /\ read.val = response_deadline(Draft.filing_date) + 30
          /\ Draft.filing_date = date(2026, 1, 1) => read.val = date(2026, 3, 2)
    /\ read.op = "second_appeal_deadline" =>
          /\ read.val = Draft.filing_date + 150
          /\ read.val = first_appeal_deadline(Draft.filing_date) + 90
          /\ Draft.filing_date = date(2026, 1, 1) => read.val = date(2026, 5, 31)

\* The second appeal deadline of a draft filed on 2026-01-01.
C18_Witness ==
    /\ read.op = "second_appeal_deadline"
    /\ Draft.filing_date = date(2026, 1, 1)
    /\ read.val = date(2026, 5, 31)

(* C19: the fee of an application with the BPL flag set is 0, for every    *)
(* agency code, in the directory or not, and every state, absent, in the   *)
(* fee table or not in it.                                                 *)
C19_ExemptPaysNothing ==
    (read.op = "fee_amount" /\ Draft.is_bpl) => read.val = 0

\* An exempt application for a state with a fee of its own and an agency
\* outside the directory.
C19_Witness ==
    /\ read.op = "fee_amount"
    /\ Draft.is_bpl
    /\ Draft.state = Some(Gujarat)
    /\ Draft.agency_code \notin DOMAIN AGENCY_DIRECTORY
    /\ read.val = 0

\* The fee table's entry for a state as the caller wrote it, None when the
\* state is absent, empty or not in the table after normalisation.
RegionFee(state) ==
    IF state = None \/ state = Some(<<>>)
    THEN None
    ELSE IF FeeKey(Val(state)) \in DOMAIN FEES
    THEN Some(FEES[FeeKey(Val(state))])
    ELSE None

(* C20: without the BPL flag the state comes before the fee category: a    *)
(* state that is in the fee table after normalisation gives that state's   *)
(* fee whatever the agency; otherwise the fee is that of the agency's fee  *)
(* category, 10 for every agency of the directory and for an unknown one.  *)
C20_RegionBeforeCategory ==
    (read.op = "fee_amount" /\ ~Draft.is_bpl) =>
        /\ RegionFee(Draft.state) # None => read.val = Val(RegionFee(Draft.state))
        /\ RegionFee(Draft.state) = None => read.val = 10
        /\ Draft.state \in {Some(Gujarat), Some(lower(Gujarat))} => read.val = 20
        /\ Draft.state = Some(TamilNadu) => read.val = FEES.tamil_nadu

\* A state with a fee other than the category's, for an agency of the directory.
C20_Witness ==
    /\ read.op = "fee_amount"
    /\ ~Draft.is_bpl
    /\ Draft.state = Some(Gujarat)
    /\ Draft.agency_code \in DOMAIN AGENCY_DIRECTORY
    /\ read.val = 20
    /\ read.val # dict_get(FEES, AGENCY_DIRECTORY[Draft.agency_code].fee_category, 10)

----------------------------------------------------------------------------
(* Claims about the renderings and the templates, under SpecDraft. *)

Was == Val(read.was)
HasLine(text, line) == \E i \in 1..Len(text) : text[i] = line
InEnglish(language) == language \in {"english", "bilingual"}
InHindi(language) == language \in {"hindi", "bilingual"}

(* C21: rendering is idempotent and deterministic: generate on an          *)
(* application that was rendered before and not changed since returns the  *)
(* text it returned before, in each language; the generated_text it keeps  *)
(* has no part in a later rendering.                                       *)
C21_RenderIdempotent ==
    (read.op = "generate" /\ read.kind = "text") =>
        /\ Draft.generated_text = read.val
        /\ Was.generated_text # EmptyText => read.val = Was.generated_text
        /\ generate(Draft).val = read.val
        /\ generate([Was EXCEPT !.generated_text = EmptyText]).val = read.val

\* A bilingual application is rendered a second time.
C21_Witness ==
    /\ read.op = "generate"
    /\ Draft.language = "bilingual"
    /\ Was.generated_text # EmptyText
    /\ Was.questions = Draft.questions
    /\ read.val = Was.generated_text

(* C22: the bilingual rendering is the English banner, the text the        *)
(* English rendering of the same application gives, the Hindi banner and   *)
(* the text its Hindi rendering gives, in this order.                      *)
C22_BilingualIsBoth ==
    (read.op = "generate" /\ Was.language = "bilingual") =>
        /\ read.kind = "text"
        /\ read.val =
              EnglishBanner \o generate([Was EXCEPT !.language = "english"]).val
                  \o <<"">>
                  \o HindiBanner \o generate([Was EXCEPT !.language = "hindi"]).val
        /\ read.val[2] = "ENGLISH VERSION / Angrezi Sanskaran"
        /\ HasLine(read.val, "Hindi Sanskaran / HINDI VERSION")

\* A bilingual rendering that begins with the English banner and holds the
\* first line of the Hindi text further down.
C22_Witness ==
    /\ read.op = "generate"
    /\ Was.language = "bilingual"
    /\ SubSeq(read.val, 1, 4) = EnglishBanner
    /\ read.val[5] = "APPLICATION UNDER SECTION 6(1) OF THE RIGHT TO INFORMATION ACT, 2005"
    /\ HasLine(read.val, "Soochna ka Adhikar Adhiniyam, 2005 ki dhara 6(1) ke tahat aavedan")

\* The number of characters of the digit-dot prefix of a line: digits and a
\* dot after them; 0 when the line does not start with one.
RECURSIVE LeadingDigits(_, _)
LeadingDigits(line, k) ==
    IF k < Len(line) /\ isdigit(line[k + 1]) THEN LeadingDigits(line, k + 1) ELSE k

DigitDotPrefix(line) ==
    LET k == LeadingDigits(line, 0)
    IN  IF k > 0 /\ k < Len(line) /\ line[k + 1] = "." THEN k + 1 ELSE 0

\* The question texts of the lines that start with a digit-dot prefix.
RECURSIVE NumberedQuestions(_, _)
NumberedQuestions(lines, k) ==
    IF k > Len(lines) THEN <<>>
    ELSE LET line == strip(lines[k])
             prefix == DigitDotPrefix(line)
             question == strip(SubSeq(line, prefix + 1, Len(line)))
         IN  (IF prefix # 0 /\ question # <<>> THEN <<Spell(question)>> ELSE <<>>)
             \o NumberedQuestions(lines, k + 1)

(* C23: _extract_template_questions returns, in the order of the lines,    *)
(* the question texts of exactly the lines that start with a digit-dot     *)
(* prefix, trimmed; blank lines and lines without such a prefix give       *)
(* nothing.                                                                *)
C23_ExtractsNumberedLines ==
    read.op = "_extract_template_questions" =>
        read.val = NumberedQuestions(split(TemplateDir[Val(read.arg)], "\n"), 1)

C25_TemplateLoad ==
    read.op = "generate_from_template" =>
        IF Val(read.arg) \notin DOMAIN TemplateDir
        THEN /\ read.kind = "raise"
             /\ read.val = <<"FileNotFoundError">>
             /\ Draft = Was
        ELSE LET questions == _extract_template_questions(TemplateDir[Val(read.arg)])
             IN  /\ read.kind = "text"
                 /\ Draft.questions =
                       IF Len(questions) >= 1 THEN questions ELSE Was.questions

\* A template without questions is loaded into an application that has some.
C25_Witness ==
    /\ read.op = "generate_from_template"
    /\ read.arg = Some("plain")
    /\ read.kind = "text"
    /\ _extract_template_questions(TemplateDir.plain) = <<>>
    /\ Draft.questions = Was.questions
    /\ Len(Draft.questions) = 2

====
